---- MODULE Spec2Model ----
(***************************************************************************)
(* Model of the rebalance calendar (qstrader/system/rebalance/monthly.py)  *)
(* and of the composite-rank alpha model (examples/dbtrx.py).              *)
(*                                                                         *)
(* Conventions                                                             *)
(*  - a Python dict is a sequence of <<key, value>> pairs in insertion     *)
(*    order (dicts iterate in insertion order, and the code sorts          *)
(*    dict.items() with a stable sort, so that order is observable);       *)
(*  - a weight is the exact fraction [num, den]; 0.0 is 0/1 and            *)
(*    1.0 / mom_top_n is 1/mom_top_n;                                      *)
(*  - a composite score 0.5*h + 0.5*c is kept as the integer 2*score =     *)
(*    h + c, which orders exactly as the score does;                       *)
(*  - signal values are integers (only their order is used by the code).   *)
(***************************************************************************)
EXTENDS Integers, Sequences, FiniteSets

VARIABLES
    mom_top_n,     \* self.mom_top_n
    mom_lookback,  \* self.mom_lookback
    pc,            \* "idle" | "returned" | "raised"
    universe,      \* set returned by universe.get_assets(dt) in this call
    warmup,        \* signals.warmup read by this call
    assets6m,      \* signals['gain6m'].assets as read (<<>> when not read)
    assets5d,      \* signals['gain5d'].assets as read (<<>> when not read)
    all_6m,        \* dict asset -> 6m gain, as read from the provider
    all_5d,        \* dict asset -> 5d gain, as read from the provider
    queries,       \* set of <<signal name, asset, lookback>> calls made
    top_assets,    \* list returned by _dbtransaction_asset
    weights,       \* dict returned by __call__ (as a function on its keys)
    err,           \* name of the exception raised, "" when none
    prev,          \* history: what the evaluation before this one returned
    cal            \* state of the rebalance calendar run

vars == <<mom_top_n, mom_lookback, pc, universe, warmup, assets6m, assets5d,
          all_6m, all_5d, queries, top_assets, weights, err, prev, cal>>

engineVars == <<mom_top_n, mom_lookback, pc, universe, warmup, assets6m,
                assets5d, all_6m, all_5d, queries, top_assets, weights, err,
                prev>>

(***************************************************************************)
(* Bounds of the model.                                                    *)
(***************************************************************************)
MaxTopN == 3        \* mom_top_n ranges over -NegTopN .. MaxTopN
NegTopN == 1
MaxLookback == 1    \* mom_lookback ranges over 1 .. MaxLookback
MaxWarmup == 1      \* signals.warmup ranges over 0 .. MaxWarmup
MaxVal == 1         \* signal values range over 0 .. MaxVal
MaxStartDay == 2    \* start_date ranges over day 0 .. MaxStartDay of the year
MaxSpan == 4        \* end_date - start_date ranges over 0, 30 .. 30 * MaxSpan
MaxMonthday == 23   \* monthday ranges over 0 .. MaxMonthday business days

\* the assets of the exhaustive runs, in the order they enter the universe
AssetList == <<"A", "B", "C">>

\* the universe at a timestamp: the assets that have entered by then
Universes == {{AssetList[i] : i \in 1..k} : k \in 0..Len(AssetList)}

\* the worked example: four assets, heat 10, 5, 8, 1 and chill 0.1, -0.2,
\* 0.05, -0.3 (in hundredths), in every assignment to the assets
ExampleList == <<"A", "B", "C", "D">>
ExampleHeat == {10, 5, 8, 1}
ExampleChill == {10, 0 - 20, 5, 0 - 30}

gain6m_lookback == 126
gain5d_lookback == 5

(***************************************************************************)
(* Python helpers.                                                         *)
(***************************************************************************)
Min(a, b) == IF a <= b THEN a ELSE b
Max(a, b) == IF a >= b THEN a ELSE b

Range(s) == {s[i] : i \in 1..Len(s)}

\* the sub-lists of s, in the order of s
RECURSIVE SubLists(_)
SubLists(s) ==
    IF s = <<>> THEN {<<>>}
    ELSE LET rest == SubLists(Tail(s))
         IN rest \cup {<<Head(s)>> \o t : t \in rest}

Reverse(s) == [i \in 1..Len(s) |-> s[Len(s) + 1 - i]]

\* the asset list a signal holds: some of the assets, in the order they
\* entered the universe or in the opposite order
SignalLists ==
    SubLists(AssetList) \cup {Reverse(l) : l \in SubLists(AssetList)}

\* dicts (pair sequences) with keys `keys` in that order and values in V
RECURSIVE DictsOver(_, _)
DictsOver(keys, V) ==
    IF keys = <<>> THEN {<<>>}
    ELSE {<<<<keys[1], v>>>> \o t : v \in V, t \in DictsOver(Tail(keys), V)}

Injective(d) == \A i, j \in 1..Len(d) : d[i][2] = d[j][2] => i = j

Keys(d) == [i \in 1..Len(d) |-> d[i][1]]
Lookup(d, k) == d[CHOOSE i \in 1..Len(d) : d[i][1] = k][2]

\* one insertion step of sorted(items, key=itemgetter(1), reverse=rev):
\* x goes behind every element that does not have to follow it, so equal
\* keys keep their input order (Python's sort is stable, also when reversed)
InsertByValue(x, s, rev) ==
    LET stays(e) == IF rev THEN e[2] >= x[2] ELSE e[2] <= x[2]
        k == Cardinality({i \in 1..Len(s) : stays(s[i])})
    IN SubSeq(s, 1, k) \o <<x>> \o SubSeq(s, k + 1, Len(s))

RECURSIVE SortedByValue(_, _)
SortedByValue(items, rev) ==
    IF items = <<>> THEN <<>>
    ELSE InsertByValue(items[Len(items)],
                       SortedByValue(SubSeq(items, 1, Len(items) - 1), rev),
                       rev)

\* {sym: rank for sym, rank in zip(lst, range(1, len(lst)+1))}
RankMap(lst) == [i \in 1..Len(lst) |-> <<lst[i], i>>]

\* variant: the slice is forgotten and the whole list is returned
SlicePrefixWhole(lst, n) == lst

\* lst[:n]
SlicePrefix(lst, n) ==
    IF n >= 0 THEN SubSeq(lst, 1, Min(n, Len(lst)))
    ELSE SubSeq(lst, 1, Max(Len(lst) + n, 0))

(***************************************************************************)
(* DBTransactionAlphaModel._dbtransaction_asset, after the assertion.      *)
(***************************************************************************)
Heat(d6) == Keys(SortedByValue(d6, TRUE))
Chill(d5) == Keys(SortedByValue(d5, FALSE))

\* variant: dbtrxmap is built in the assets' iteration order, not in heat's
DbtrxMapInListOrder(d6, d5) ==
    LET heatmap == RankMap(Heat(d6))
        chillmap == RankMap(Chill(d5))
    IN [i \in 1..Len(d6) |->
          <<d6[i][1], Lookup(heatmap, d6[i][1]) + Lookup(chillmap, d6[i][1])>>]

\* dbtrxmap, scores doubled: 2 * (0.5 * heatmap[sym] + 0.5 * chillmap[sym])
DbtrxMap(d6, d5) ==
    LET heat == Heat(d6)
        heatmap == RankMap(heat)
        chillmap == RankMap(Chill(d5))
    IN [i \in 1..Len(heat) |->
          <<heat[i], Lookup(heatmap, heat[i]) + Lookup(chillmap, heat[i])>>]

DbtrxList(d6, d5) == Keys(SortedByValue(DbtrxMap(d6, d5), FALSE))

DbtransactionAsset(d6, d5, n) == SlicePrefix(DbtrxList(d6, d5), n)

(***************************************************************************)
(* Weights.                                                                *)
(***************************************************************************)
Zero == [num |-> 0, den |-> 1]
OneOver(n) == [num |-> 1, den |-> n]

\* variant: the dict of the call before is reused instead of a fresh one
InitialWeightsCarried(assets) ==
    [a \in assets |-> IF a \in DOMAIN weights THEN weights[a] ELSE Zero]

\* weights = {asset: 0.0 for asset in assets}
InitialWeights(assets) == [a \in assets |-> Zero]

\* for asset in top_assets: weights[asset] = 1.0 / self.mom_top_n
GenerateSignals(w, top, n) ==
    [a \in (DOMAIN w) \cup Range(top) |->
        IF a \in Range(top) THEN OneOver(n) ELSE w[a]]

(***************************************************************************)
(* DBTransactionAlphaModel.__call__                                        *)
(***************************************************************************)
\* variant: the gate opens one period late
WarmedUpStrict(w, lookback) == w > lookback

\* if self.signals.warmup >= self.mom_lookback
WarmedUp(w, lookback) == w >= lookback

\* assert(assets6m == assets5d): equality of the two lists
AssetsMatch(a6, a5) == a6 = a5

\* the six-month and five-day provider calls of the two dict comprehensions
SignalQueries(a6, a5) ==
    {<<"gain6m", a6[i], gain6m_lookback>> : i \in 1..Len(a6)} \cup
    {<<"gain5d", a5[i], gain5d_lookback>> : i \in 1..Len(a5)}

\* the reads of signals['gain6m'].assets and signals['gain5d'].assets
AssetReads == {<<"gain6m", "assets", 0>>, <<"gain5d", "assets", 0>>}

NoWeights == [a \in {} |-> Zero]

\* warmup below the lookback: the zero dict is returned as it is
Inert(u) ==
    /\ weights' = InitialWeights(u)
    /\ pc' = "returned"
    /\ err' = ""
    /\ assets6m' = <<>> /\ assets5d' = <<>>
    /\ all_6m' = <<>> /\ all_5d' = <<>>
    /\ queries' = {}
    /\ top_assets' = <<>>

\* the assertion of _dbtransaction_asset fails: nothing is returned
RaiseAssertion(a6, a5) ==
    /\ assets6m' = a6 /\ assets5d' = a5
    /\ pc' = "raised"
    /\ err' = "AssertionError"
    /\ weights' = NoWeights
    /\ all_6m' = <<>> /\ all_5d' = <<>>
    /\ queries' = AssetReads
    /\ top_assets' = <<>>

\* _generate_signals on the values d6, d5 the provider returns
Rank(u, d6, d5) ==
    LET top == DbtransactionAsset(d6, d5, mom_top_n)
    IN /\ assets6m' = Keys(d6) /\ assets5d' = Keys(d5)
       /\ all_6m' = d6 /\ all_5d' = d5
       /\ queries' = AssetReads \cup SignalQueries(Keys(d6), Keys(d5))
       /\ top_assets' = top
       /\ IF top # <<>> /\ mom_top_n = 0
          THEN /\ pc' = "raised"
               /\ err' = "ZeroDivisionError"
               /\ weights' = NoWeights
          ELSE /\ pc' = "returned"
               /\ err' = ""
               /\ weights' = GenerateSignals(InitialWeights(u), top, mom_top_n)

\* one evaluation; the collaborators answer from U (universe), L (asset
\* lists) and Gains6m[keys], Gains5d[keys] (the dicts of signal values)
Call(U, L, Gains6m, Gains5d) ==
    /\ pc # "raised"
    /\ \E u \in U, w \in 0..MaxWarmup :
          /\ universe' = u
          /\ warmup' = w
          /\ IF WarmedUp(w, mom_lookback)
             THEN \E a6 \in L, a5 \in L :
                     IF AssetsMatch(a6, a5)
                     THEN \E d6 \in Gains6m[a6], d5 \in Gains5d[a5] :
                             Rank(u, d6, d5)
                     ELSE RaiseAssertion(a6, a5)
             ELSE Inert(u)
    /\ prev' = [active |-> pc = "returned" /\ WarmedUp(warmup, mom_lookback),
                selected |-> {a \in DOMAIN weights : weights[a] # Zero}]
    /\ UNCHANGED <<mom_top_n, mom_lookback, cal>>

\* the driver hands the returned weights on and comes back for the next event
Forward ==
    /\ pc = "returned"
    /\ pc' = "idle"
    /\ universe' = {} /\ warmup' = 0
    /\ assets6m' = <<>> /\ assets5d' = <<>>
    /\ all_6m' = <<>> /\ all_5d' = <<>>
    /\ queries' = {} /\ top_assets' = <<>>
    /\ weights' = NoWeights /\ err' = ""
    /\ UNCHANGED <<mom_top_n, mom_lookback, prev, cal>>

NoCalendar == [phase |-> "none"]
NoPrevious == [active |-> FALSE, selected |-> {}]

\* DBTransactionAlphaModel.__init__: the parameters are stored unchecked
Init ==
    /\ mom_top_n \in (0 - NegTopN)..MaxTopN
    /\ mom_lookback \in 1..MaxLookback
    /\ pc = "idle"
    /\ universe = {} /\ warmup = 0
    /\ assets6m = <<>> /\ assets5d = <<>>
    /\ all_6m = <<>> /\ all_5d = <<>>
    /\ queries = {} /\ top_assets = <<>>
    /\ weights = NoWeights /\ err = ""
    /\ prev = NoPrevious
    /\ cal = NoCalendar

AnyGains == [keys \in SignalLists |-> DictsOver(keys, 0..MaxVal)]
ExampleGains6m ==
    [keys \in {ExampleList} |->
        {d \in DictsOver(keys, ExampleHeat) : Injective(d)}]
ExampleGains5d ==
    [keys \in {ExampleList} |->
        {d \in DictsOver(keys, ExampleChill) : Injective(d)}]

\* an evaluation over every small input
Evaluate ==
    pc = "idle" /\ Call(Universes, SignalLists, AnyGains, AnyGains)

\* an evaluation over the four assets of the worked example
EvaluateExample ==
    pc = "idle" /\ Call({Range(ExampleList)}, {ExampleList},
                        ExampleGains6m, ExampleGains5d)

Next == Evaluate \/ EvaluateExample \/ Forward

Spec == Init /\ [][Next]_vars

(***************************************************************************)
(* Consecutive evaluations on one engine: the driver calls again with the  *)
(* dict of the last call still in its hands.                               *)
(***************************************************************************)
SeqUniverses == {{}, {"A"}, {"A", "B"}}
SeqLists == {<<>>, <<"A">>, <<"A", "B">>, <<"B", "A">>}
SeqGains6m == [keys \in SeqLists |-> DictsOver(keys, {0, 1})]
SeqGains5d == [keys \in SeqLists |-> DictsOver(keys, {0})]

Reevaluate == Call(SeqUniverses, SeqLists, SeqGains6m, SeqGains5d)

NextSeq == Reevaluate

SpecSeq == Init /\ [][NextSeq]_vars

(***************************************************************************)
(* MonthlyRebalance.  A date is a day number, day 0 being 1 January of a   *)
(* year that starts on weekday w0 (0 = Monday .. 6 = Sunday); a timestamp  *)
(* is <<day, minute of the day>>, in UTC.                                  *)
(***************************************************************************)
MonthLengths(leap) ==
    <<31, IF leap THEN 29 ELSE 28, 31, 30, 31, 30, 31, 31, 30, 31, 30, 31>>

RECURSIVE MonthStart(_, _)
MonthStart(m, leap) ==
    IF m = 1 THEN 0 ELSE MonthStart(m - 1, leap) + MonthLengths(leap)[m - 1]

Weekday(w0, d) == (d + w0) % 7

\* the day itself when it is Monday..Friday, else the Monday after
RollForward(w0, d) ==
    IF Weekday(w0, d) = 5 THEN d + 2
    ELSE IF Weekday(w0, d) = 6 THEN d + 1
    ELSE d

\* the first business day strictly after d
NextBDay(w0, d) == RollForward(w0, d + 1)

\* variant: the offset is counted in calendar days
BDayAddCalendarDays(w0, d, n) == d + n

\* x + pd.offsets.BDay(n), n >= 0
RECURSIVE BDayAdd(_, _, _)
BDayAdd(w0, d, n) ==
    IF n = 0 THEN RollForward(w0, d) ELSE BDayAdd(w0, NextBDay(w0, d), n - 1)

\* pd.date_range(start, end, freq='BMS'): the first business day of every
\* month that lies in [start, end]
DateRangeBMS(w0, leap, start, end) ==
    LET firsts == [m \in 1..12 |-> RollForward(w0, MonthStart(m, leap))]
        InRange(d) == start <= d /\ d <= end
    IN SelectSeq(firsts, InRange)

\* _set_market_time: "14:30:00" or "21:00:00", in minutes of the day
SetMarketTime(pre_market) == IF pre_market THEN 14 * 60 + 30 ELSE 21 * 60

\* _generate_rebalances
GenerateRebalances(w0, leap, start, end, monthday, market_time) ==
    LET dates == DateRangeBMS(w0, leap, start, end)
    IN [i \in 1..Len(dates) |-> <<BDayAdd(w0, dates[i], monthday), market_time>>]

\* MonthlyRebalance.__init__
Construct ==
    /\ cal.phase = "args"
    /\ cal' = [cal EXCEPT
                 !.phase = "ready",
                 !.rebalances =
                     GenerateRebalances(cal.w0, cal.leap, cal.start_date,
                                        cal.end_date, cal.monthday,
                                        SetMarketTime(cal.pre_market))]
    /\ UNCHANGED engineVars

\* the driver takes the next event of the schedule and evaluates at it
DriverStep ==
    /\ cal.phase = "ready"
    /\ Len(cal.seen) < Len(cal.rebalances)
    /\ cal' = [cal EXCEPT
                 !.seen = Append(cal.seen, cal.rebalances[Len(cal.seen) + 1])]
    /\ UNCHANGED engineVars

InitCal ==
    /\ \E w0 \in 0..6, leap \in BOOLEAN, start \in 0..MaxStartDay,
          span \in 0..MaxSpan, monthday \in 0..MaxMonthday,
          pre \in BOOLEAN :
          cal = [phase |-> "args", w0 |-> w0, leap |-> leap,
                 start_date |-> start, end_date |-> start + 30 * span,
                 monthday |-> monthday, pre_market |-> pre,
                 rebalances |-> <<>>, seen |-> <<>>]
    /\ mom_top_n = MaxTopN
    /\ mom_lookback = MaxLookback
    /\ pc = "idle"
    /\ universe = {} /\ warmup = 0
    /\ assets6m = <<>> /\ assets5d = <<>>
    /\ all_6m = <<>> /\ all_5d = <<>>
    /\ queries = {} /\ top_assets = <<>>
    /\ weights = NoWeights /\ err = ""
    /\ prev = NoPrevious

NextCal == Construct \/ DriverStep

SpecCal == InitCal /\ [][NextCal]_vars

(***************************************************************************)
(* Vocabulary of the properties: the state of a finished evaluation, read  *)
(* without the operators of the model above.                               *)
(***************************************************************************)
Called == pc \in {"returned", "raised"}
Returned == pc = "returned"
ActiveCall == Called /\ warmup >= mom_lookback
InertCall == Called /\ warmup < mom_lookback
Ranked == Returned /\ warmup >= mom_lookback

Listed == {assets6m[i] : i \in 1..Len(assets6m)}
PosOf(a) == CHOOSE i \in 1..Len(assets6m) : assets6m[i] = a
Gain6m(a) == all_6m[CHOOSE i \in 1..Len(all_6m) : all_6m[i][1] = a][2]
Gain5d(a) == all_5d[CHOOSE i \in 1..Len(all_5d) : all_5d[i][1] = a][2]

\* 1..K position with the long-horizon values descending / the short-horizon
\* values ascending, equal values in iteration order
HeatRank(a) ==
    1 + Cardinality({b \in Listed :
            \/ Gain6m(b) > Gain6m(a)
            \/ Gain6m(b) = Gain6m(a) /\ PosOf(b) < PosOf(a)})
ChillRank(a) ==
    1 + Cardinality({b \in Listed :
            \/ Gain5d(b) < Gain5d(a)
            \/ Gain5d(b) = Gain5d(a) /\ PosOf(b) < PosOf(a)})
\* twice the composite 0.5 * heatRank + 0.5 * chillRank
Composite2(a) == HeatRank(a) + ChillRank(a)

Selected == {a \in DOMAIN weights : weights[a] # [num |-> 0, den |-> 1]}

\* exact fractions
RNorm(x) == IF x.den < 0 THEN [num |-> 0 - x.num, den |-> 0 - x.den] ELSE x
RAdd(x, y) == [num |-> x.num * y.den + y.num * x.den, den |-> x.den * y.den]
RLeq(x, y) == RNorm(x).num * RNorm(y).den <= RNorm(y).num * RNorm(x).den
REq(x, y) == RLeq(x, y) /\ RLeq(y, x)
RECURSIVE RSum(_, _)
RSum(w, S) ==
    IF S = {} THEN [num |-> 0, den |-> 1]
    ELSE LET a == CHOOSE b \in S : TRUE IN RAdd(w[a], RSum(w, S \ {a}))
Total == RSum(weights, DOMAIN weights)
ROne == [num |-> 1, den |-> 1]
RZero == [num |-> 0, den |-> 1]

\* the inputs of the worked example
IsExample ==
    /\ Ranked
    /\ all_6m = <<<<"A", 10>>, <<"B", 5>>, <<"C", 8>>, <<"D", 1>>>>
    /\ all_5d = <<<<"A", 10>>, <<"B", 0 - 20>>, <<"C", 5>>, <<"D", 0 - 30>>>>
    /\ mom_top_n = 2

(***************************************************************************)
(* C1: the keys of every returned weights dict are exactly the assets the  *)
(* universe returned for that call.  Stated for mom_top_n >= 1, the        *)
(* configurations the specification admits.                                *)
(***************************************************************************)
C1_KeysAreUniverse ==
    (Returned /\ mom_top_n >= 1) => DOMAIN weights = universe

(***************************************************************************)
(* C2: with mom_top_n >= 1 every returned weight is >= 0, the weights sum  *)
(* to at most 1, at most mom_top_n keys carry 1/mom_top_n and every other  *)
(* key carries 0.                                                          *)
(***************************************************************************)
C2_WeightsBounded ==
    (Returned /\ mom_top_n >= 1) =>
        /\ \A a \in DOMAIN weights : RLeq(RZero, weights[a])
        /\ RLeq(Total, ROne)
        /\ \A a \in DOMAIN weights :
              weights[a] \in {[num |-> 1, den |-> mom_top_n], RZero}
        /\ Cardinality({a \in DOMAIN weights :
              weights[a] = [num |-> 1, den |-> mom_top_n]}) <= mom_top_n

C2_Witness ==
    /\ Returned /\ mom_top_n = 2
    /\ Cardinality(Selected) = 2
    /\ \E a \in DOMAIN weights : weights[a] = RZero
    /\ Len(assets6m) = 3

C4_EqualShares ==
    (Ranked /\ Len(assets6m) >= 1) =>
        LET K == Len(assets6m) IN
        /\ \A a \in Selected : weights[a] = [num |-> 1, den |-> mom_top_n]
        /\ K < mom_top_n =>
              /\ Selected = Listed
              /\ REq(Total, [num |-> K, den |-> mom_top_n])
        /\ K >= mom_top_n =>
              /\ Cardinality(Selected) = mom_top_n
              /\ REq(Total, ROne)

(***************************************************************************)
(* C5 as claimed: assets with equal composite score are taken in the       *)
(* order in which the assets were originally iterated; in the worked       *)
(* example mom_top_n = 2 selects A and B at 1/2 each.  Stated for          *)
(* mom_top_n >= 1.                                                         *)
(***************************************************************************)
C5_TiesInIterationOrder ==
    /\ IsExample =>
          /\ Selected = {"A", "B"}
          /\ \A a \in Selected : weights[a] = [num |-> 1, den |-> 2]
    /\ (Ranked /\ mom_top_n >= 1) =>
          LET comp == [a \in Listed |-> Composite2(a)]
          IN \A a \in Selected : \A b \in Listed :
                (comp[b] = comp[a] /\ PosOf(b) < PosOf(a)) => b \in Selected

(***************************************************************************)
(* C5 as amended: assets with equal composite score are taken in heat-rank *)
(* order (long-horizon value descending, equal values in iteration order); *)
(* in the worked example mom_top_n = 2 selects A and C at 1/2 each.        *)
(***************************************************************************)
C5_TiesInHeatOrder ==
    /\ IsExample =>
          /\ Selected = {"A", "C"}
          /\ \A a \in Selected : weights[a] = [num |-> 1, den |-> 2]
    /\ Ranked =>
          LET heat == [a \in Listed |-> HeatRank(a)]
              comp == [a \in Listed |-> Composite2(a)]
          IN /\ \A a \in Selected : \A b \in Listed :
                   (comp[b] = comp[a] /\ heat[b] < heat[a]) => b \in Selected
             /\ \A i, j \in 1..Len(top_assets) :
                   (i < j /\ comp[top_assets[i]] = comp[top_assets[j]])
                       => heat[top_assets[i]] < heat[top_assets[j]]

C5_Witness == IsExample /\ \A a \in Listed : Composite2(a) = 5

(***************************************************************************)
(* C6: an Active evaluation raises, and returns no weights, when the two   *)
(* signals' asset sets differ, and does not raise when they are equal as   *)
(* sets.  Stated for mom_top_n >= 1.                                       *)
(***************************************************************************)
C6_SetMismatchRejected ==
    (ActiveCall /\ mom_top_n >= 1) =>
        LET set6m == {assets6m[i] : i \in 1..Len(assets6m)}
            set5d == {assets5d[i] : i \in 1..Len(assets5d)}
        IN /\ set6m # set5d => (pc = "raised" /\ DOMAIN weights = {})
           /\ set6m = set5d => pc = "returned"

(***************************************************************************)
(* C7: no evaluation runs with mom_top_n < 1, and no weight has a          *)
(* denominator mom_top_n <= 0.                                             *)
(***************************************************************************)
C7_TopNAtLeastOne ==
    Called =>
        /\ mom_top_n >= 1
        /\ \A a \in DOMAIN weights : weights[a].den >= 1

(***************************************************************************)
(* C9: in an Active evaluation the selected assets are the first           *)
(* min(mom_top_n, K) assets by ascending composite score (none when that   *)
(* number is not positive), the composite being 0.5*heatRank +             *)
(* 0.5*chillRank with both rank lists permutations of 1..K: no unselected  *)
(* asset scores strictly below a selected one.  Stated for a non-empty     *)
(* asset list, K >= 1.                                                     *)
(***************************************************************************)
C9_TopByComposite ==
    (Ranked /\ Len(assets6m) >= 1) =>
        LET K == Len(assets6m)
            n == IF mom_top_n <= K THEN mom_top_n ELSE K
            comp == [a \in Listed |-> Composite2(a)]
        IN /\ {HeatRank(a) : a \in Listed} = 1..K
           /\ {ChillRank(a) : a \in Listed} = 1..K
           /\ Selected \subseteq Listed
           /\ Cardinality(Selected) = (IF n > 0 THEN n ELSE 0)
           /\ \A a \in Selected : \A b \in Listed \ Selected :
                 comp[b] >= comp[a]

(***************************************************************************)
(* C10: no hysteresis.  What a call returns is fixed by that call's        *)
(* universe, warmup and ranking alone: a key carries 1/mom_top_n when this *)
(* call ranked it into the top and 0 otherwise, so an asset selected by    *)
(* the call before and not by this one is back at 0, and a call with       *)
(* warmup < mom_lookback returns all zeros also right after an Active one. *)
(***************************************************************************)
C10_NoHysteresis ==
    Returned =>
        LET top == {top_assets[i] : i \in 1..Len(top_assets)} IN
        /\ DOMAIN weights = universe \cup top
        /\ \A a \in DOMAIN weights :
              weights[a] = IF a \in top THEN [num |-> 1, den |-> mom_top_n]
                           ELSE RZero
        /\ \A a \in (prev.selected \ top) \cap DOMAIN weights :
              weights[a] = RZero
        /\ (prev.active /\ warmup < mom_lookback) =>
              \A a \in DOMAIN weights : weights[a] = RZero

C10_Witness ==
    /\ Returned /\ prev.active /\ warmup < mom_lookback
    /\ prev.selected \cap universe # {}

(***************************************************************************)
(* C8: for start <= end and a business-day offset >= 0 the Monthly         *)
(* schedule is strictly increasing: it holds one event per calendar month  *)
(* whose first business day lies in [start, end], each that anchor moved   *)
(* forward by the same number of business days (possibly into the month    *)
(* after), and the driver evaluates in strictly increasing timestamp order.*)
(***************************************************************************)
TsLess(a, b) == a[1] < b[1] \/ (a[1] = b[1] /\ a[2] < b[2])
StrictlyIncreasing(ts) == \A i, j \in 1..Len(ts) : i < j => TsLess(ts[i], ts[j])
IsBusinessDay(d) == (d + cal.w0) % 7 \in 0..4
\* day numbers of the first of each month, common and leap year
FirstOfMonthCommon == {0, 31, 59, 90, 120, 151, 181, 212, 243, 273, 304, 334}
FirstOfMonthLeap == {0, 31, 60, 91, 121, 152, 182, 213, 244, 274, 305, 335}
\* day d is the first Monday..Friday of its calendar month
IsMonthAnchor(d) ==
    /\ IsBusinessDay(d)
    /\ \E first \in (IF cal.leap THEN FirstOfMonthLeap ELSE FirstOfMonthCommon) :
          /\ first <= d /\ d <= first + 2
          /\ \A e \in first..(d - 1) : ~IsBusinessDay(e)
AnchorsInRange == {d \in cal.start_date..cal.end_date : IsMonthAnchor(d)}
BusinessDaysBetween(a, e) == Cardinality({d \in (a + 1)..e : IsBusinessDay(d)})

C8_MonthlyIncreasing ==
    cal.phase = "ready" =>
        /\ StrictlyIncreasing(cal.rebalances)
        /\ StrictlyIncreasing(cal.seen)
        /\ Len(cal.rebalances) = Cardinality(AnchorsInRange)
        /\ \A a \in AnchorsInRange :
              \E i \in 1..Len(cal.rebalances) :
                 LET e == cal.rebalances[i][1] IN
                 /\ IsBusinessDay(e)
                 /\ a <= e
                 /\ BusinessDaysBetween(a, e) = cal.monthday

\* every event evaluated, and an offset large enough that an event lies on
\* or after the first business day of a later month
C8_Witness ==
    /\ cal.phase = "ready"
    /\ Len(cal.seen) >= 3 /\ Len(cal.seen) = Len(cal.rebalances)
    /\ \E i \in 1..Len(cal.rebalances) : \E a \in AnchorsInRange :
          /\ a <= cal.rebalances[i][1]
          /\ BusinessDaysBetween(a, cal.rebalances[i][1]) < cal.monthday

(***************************************************************************)
(* Reach of the unchecked mom_top_n.  C4 and C9 fail only in evaluations   *)
(* that C7 says cannot happen: C4 holds in every evaluation with           *)
(* mom_top_n >= 1 and C9 in every evaluation with mom_top_n >= 0.          *)
(***************************************************************************)
EqualSharesWithValidTopN == mom_top_n >= 1 => C4_EqualShares
TopByCompositeWithoutNegativeTopN == mom_top_n >= 0 => C9_TopByComposite

====
